---- MODULE Spec2Model ----
(***************************************************************************)
(* Model of jnihook.cpp: the session life cycle (JNIHook_Init,             *)
(* JNIHook_Shutdown), the class-load callback (JNIHook_ClassFileLoadHook)  *)
(* and the attach protocol (JNIHook_Attach), together with the two         *)
(* process-wide maps g_hooks and g_class_file_cache and the part of the    *)
(* host VM (JVMTI environments, loaded classes) these operations talk to.  *)
(***************************************************************************)
EXTENDS FiniteSets, Integers, Sequences, TLC

(***************************************************************************)
(* Bounds of the model.                                                    *)
(***************************************************************************)
\* number of JVMTI environments JavaVM::GetEnv may hand out (one per Init)
MaxEnvs == 2
\* total number of hook_info_t records g_hooks may hold
MaxHooks == 2

(***************************************************************************)
(* Result codes (jnihook_result_t) as used by jnihook.cpp.                 *)
(***************************************************************************)
JNIHOOK_OK == "JNIHOOK_OK"
JNIHOOK_ERR_GET_JVM == "JNIHOOK_ERR_GET_JVM"
JNIHOOK_ERR_GET_JVMTI == "JNIHOOK_ERR_GET_JVMTI"
JNIHOOK_ERR_ADD_JVMTI_CAPS == "JNIHOOK_ERR_ADD_JVMTI_CAPS"
JNIHOOK_ERR_SETUP_CLASS_FILE_LOAD_HOOK == "JNIHOOK_ERR_SETUP_CLASS_FILE_LOAD_HOOK"
JNIHOOK_ERR_JVMTI_OPERATION == "JNIHOOK_ERR_JVMTI_OPERATION"
JNIHOOK_ERR_JNI_OPERATION == "JNIHOOK_ERR_JNI_OPERATION"
JNIHOOK_ERR_CLASSFILE_CACHE == "JNIHOOK_ERR_CLASSFILE_CACHE"
JNIHOOK_ERR_PATCH_CLASSFILE == "JNIHOOK_ERR_PATCH_CLASSFILE"

\* the null pointer / null handle
NULL == 0

(***************************************************************************)
(* The host VM's loaded classes and methods.  Strings are sequences of     *)
(* one-character strings so that get_class_name's character loop can be    *)
(* modelled as the code writes it.                                         *)
(***************************************************************************)
\* jclass handles
Classes == {1, 2}
\* java.lang.Class.getName() of each jclass: the dotted, reflective form
ReflectiveName == (1 :> <<"a", ".", "B">>) @@ (2 :> <<"C">>)

\* jmethodID handles, with what GetMethodDeclaringClass / GetMethodName report
Methods == {1, 2, 3}
DeclaringClass == (1 :> 1) @@ (2 :> 1) @@ (3 :> 2)
MethodName == (1 :> <<"f">>) @@ (2 :> <<"g">>) @@ (3 :> <<"f">>)
MethodSignature == (1 :> <<"(", ")", "V">>) @@ (2 :> <<"(", ")", "V">>) @@ (3 :> <<"(", ")", "V">>)

\* native trampoline addresses a caller may pass to JNIHook_Attach
Trampolines == {7}

(***************************************************************************)
(* Class documents.  classfile.hpp is not part of the sources: a document  *)
(* is the constant pool (index 0 unused, so item i of the code is entry i  *)
(* of the sequence and constant_pool.size() is Len + 1) and the method     *)
(* table, each method with its native access bit and its Code attribute.   *)
(***************************************************************************)
CONSTANT_Class == "CONSTANT_Class"
CONSTANT_Utf8 == "CONSTANT_Utf8"

Utf8(s) == [tag |-> CONSTANT_Utf8, bytes |-> s, name_index |-> 0]
ClassInfo(i) == [tag |-> CONSTANT_Class, bytes |-> <<>>, name_index |-> i]
MethodRec(n, d) == [acc_native |-> FALSE, name_index |-> n, descriptor_index |-> d, code |-> TRUE]

\* class a/B with methods f()V and g()V
DocB == [constant_pool |-> << Utf8(<<"a", "/", "B">>), ClassInfo(1), Utf8(<<"f">>),
                              Utf8(<<"(", ")", "V">>), Utf8(<<"g">>) >>,
         methods |-> << MethodRec(3, 4), MethodRec(5, 4) >>]
\* a class a/B (as defined by another loader) that has only f()V
DocB1 == [constant_pool |-> << Utf8(<<"a", "/", "B">>), ClassInfo(1), Utf8(<<"f">>),
                               Utf8(<<"(", ")", "V">>) >>,
          methods |-> << MethodRec(3, 4) >>]
\* class C with method f()V
DocC == [constant_pool |-> << Utf8(<<"C">>), ClassInfo(1), Utf8(<<"f">>),
                              Utf8(<<"(", ")", "V">>) >>,
         methods |-> << MethodRec(3, 4) >>]

\* ClassFile::bytes(): the serialized form of a document
ClassFile_bytes(cf) == [wellformed |-> TRUE, doc |-> cf]
\* a buffer the codec rejects
Malformed == [wellformed |-> FALSE, doc |-> [constant_pool |-> <<>>, methods |-> <<>>]]
\* ClassFile::load(): a unique_ptr, either null ({}) or owning one document
ClassFile_load(class_data) == IF class_data.wellformed THEN {class_data.doc} ELSE {}

\* the class bytes the VM holds for each class when the agent starts
PristineBytes == (1 :> ClassFile_bytes(DocB)) @@ (2 :> ClassFile_bytes(DocC))
\* the buffers a class-load notification may carry
ClassData == {ClassFile_bytes(DocB), ClassFile_bytes(DocB1), ClassFile_bytes(DocC), Malformed}

(***************************************************************************)
(* State.                                                                  *)
(***************************************************************************)
VARIABLES
    jnihook,             \* the caller's jnihook_t: jvm, env, jvmti (NULL = 0)
    jvmtiEnvs,           \* the JVMTI environments GetEnv has created, in order
    g_hooks,             \* class name -> sequence of hook_info_t
    g_class_file_cache,  \* class name -> cached ClassFile
    loadedBytes,         \* jclass -> the class bytes the VM currently runs
    nativeBindings,      \* native implementations bound in the VM
    fault,               \* the process has taken a fault (null dereference)
    last,                \* the most recent call: operation, arguments, result
    thr                  \* per thread: where it stands in Attach or in the callback

vars == <<jnihook, jvmtiEnvs, g_hooks, g_class_file_cache, loadedBytes,
          nativeBindings, fault, last, thr>>

\* the handle values of the one JavaVM and of the calling thread's JNIEnv
TheJavaVM == 1
TheJNIEnv == 1

ZeroedSession == [jvm |-> NULL, env |-> NULL, jvmti |-> NULL]

\* `last` records a call: the operation, its arguments (method,
\* native_hook_method, the session's jvmti), the class name it computed, the
\* place it returned from (stage) and its result (ret), whether it asked for
\* a retransformation, the answer to its redefinition request, and the class
\* bytes it submitted (Attach) or received (ClassFileLoadHook)
NoCall == [op |-> "none", ret |-> "none", stage |-> "none", method |-> NULL,
           native_hook_method |-> NULL, clazz_name |-> <<>>, jvmti |-> NULL,
           retransform |-> FALSE, redefine |-> "none", class_bytes |-> <<>>]

\* the threads: the one that calls JNIHook_Attach and a VM thread that
\* delivers class-load notifications
Threads == {"attach", "vm"}

\* a thread that is in neither function
IdleThread == [pc |-> "idle", method |-> NULL, clazz |-> NULL, class_data |-> Malformed,
               after |-> "idle"]

Init ==
    /\ thr = [t \in Threads |-> IdleThread]
    /\ jnihook = ZeroedSession
    /\ jvmtiEnvs = <<>>
    /\ g_hooks = <<>>
    /\ g_class_file_cache = <<>>
    /\ loadedBytes = PristineBytes
    /\ nativeBindings = {}
    /\ fault = FALSE
    /\ last = NoCall

(***************************************************************************)
(* Helpers.                                                                *)
(***************************************************************************)
\* get_class_name without its replacement loop
ReplaceDots_Keep(name) == name

\* the loop of get_class_name that replaces every '.' by '/'
ReplaceDots(name) == [i \in 1..Len(name) |-> IF name[i] = "." THEN "/" ELSE name[i]]

\* get_class_name: "" when any of the JNI calls fails, else Class.getName()
\* with the dots replaced
get_class_name(clazz, jniOk) ==
    IF ~jniOk THEN <<>> ELSE ReplaceDots(ReflectiveName[clazz])

\* total number of records in g_hooks
RECURSIVE HookCount(_, _)
HookCount(h, keys) ==
    IF keys = {} THEN 0
    ELSE LET k == CHOOSE x \in keys : TRUE
         IN Len(h[k]) + HookCount(h, keys \ {k})

\* the event is delivered to an environment whose callback table holds
\* JNIHook_ClassFileLoadHook and whose CLASS_FILE_LOAD_HOOK event is enabled
CallbackActive ==
    \E e \in 1..Len(jvmtiEnvs) : jvmtiEnvs[e].ClassFileLoadHook /\ jvmtiEnvs[e].enabled

\* JNIHook_ClassFileLoadHook without its "has a hook" test
ClassFileLoadHookCache_Unhooked(hooks, cache, class_name, class_data) ==
    IF class_name = <<>> \/ class_name \in DOMAIN cache
    THEN cache
    ELSE LET cf == ClassFile_load(class_data)
         IN IF cf = {} THEN cache
            ELSE cache @@ (class_name :> (CHOOSE d \in cf : TRUE))

\* JNIHook_ClassFileLoadHook without its "already cached" test
ClassFileLoadHookCache_Recache(hooks, cache, class_name, class_data) ==
    IF class_name = <<>> \/ class_name \notin DOMAIN hooks
    THEN cache
    ELSE LET cf == ClassFile_load(class_data)
         IN IF cf = {} THEN cache
            ELSE (class_name :> (CHOOSE d \in cf : TRUE)) @@ cache

\* the body of JNIHook_ClassFileLoadHook once the class name is known:
\* the cache it leaves
ClassFileLoadHookCache(hooks, cache, class_name, class_data) ==
    IF \/ class_name = <<>>
       \/ class_name \notin DOMAIN hooks
       \/ class_name \in DOMAIN cache
    THEN cache
    ELSE LET cf == ClassFile_load(class_data)
         IN IF cf = {} THEN cache
            ELSE cache @@ (class_name :> (CHOOSE d \in cf : TRUE))

\* the search of JNIHook_Attach taking the first CONSTANT_Class entry,
\* whatever its name
FindClassIndex_AnyClass(cf, clazz_name) ==
    LET cp == cf.constant_pool
        hits == {i \in 1..Len(cp) : cp[i].tag = CONSTANT_Class}
    IN IF hits = {} THEN 0 ELSE CHOOSE i \in hits : \A j \in hits : i <= j

\* the search of JNIHook_Attach for the CONSTANT_Class entry whose name is
\* clazz_name: the first such index, 0 when there is none
FindClassIndex(cf, clazz_name) ==
    LET cp == cf.constant_pool
        hits == {i \in 1..Len(cp) : /\ cp[i].tag = CONSTANT_Class
                                    /\ cp[cp[i].name_index].bytes = clazz_name}
    IN IF hits = {} THEN 0 ELSE CHOOSE i \in hits : \A j \in hits : i <= j

\* the "patch class file" loop of JNIHook_Attach: it resolves and prints each
\* method's name and descriptor and leaves the document as it is
PatchClassFile(cf, method_info) == cf

\* g_hooks[clazz_name].push_back(hook_info)
PushHook(hooks, clazz_name, hook_info) ==
    IF clazz_name \in DOMAIN hooks
    THEN [hooks EXCEPT ![clazz_name] = Append(@, hook_info)]
    ELSE hooks @@ (clazz_name :> <<hook_info>>)

\* JNIHook_Attach registering the hook before get_method_info has answered
Resolved_BeforeMethodInfo(declOk, clazz_name, infoOk) ==
    declOk /\ Len(clazz_name) # 0

\* the three identity queries of JNIHook_Attach have all succeeded, so that
\* control reaches the push_back
Resolved(declOk, clazz_name, infoOk) ==
    declOk /\ Len(clazz_name) # 0 /\ infoOk

\* JNIHook_Attach asking for the retransformation before it registers the hook
AttachRetransform_BeforePush(hooks, clazz_name, hook_info, cache, class_name, class_data) ==
    ClassFileLoadHookCache(hooks, cache, class_name, class_data)

\* the cache after RetransformClasses has delivered the class-load event
\* inside JNIHook_Attach: the callback runs after the push_back, on the
\* registry that already holds the new record
AttachRetransform(hooks, clazz_name, hook_info, cache, class_name, class_data) ==
    ClassFileLoadHookCache(PushHook(hooks, clazz_name, hook_info), cache,
                           class_name, class_data)

\* JNIHook_Attach zeroing the session when it fails
SessionAfterAttach_ResetOnError(session, ret) ==
    IF ret = JNIHOOK_OK THEN session ELSE [jvm |-> NULL, env |-> NULL, jvmti |-> NULL]

\* the caller's jnihook_t after JNIHook_Attach: the function only reads it
SessionAfterAttach(session, ret) == session

\* JNIHook_Attach going on to the constant-pool search without looking
\* whether the class is cached
AttachStage_NoCacheCheck(declOk, clazz_name, infoOk, cache, class_index) ==
    IF ~declOk THEN "declaring_class"
    ELSE IF Len(clazz_name) = 0 THEN "class_name"
    ELSE IF ~infoOk THEN "method_info"
    ELSE IF class_index = 0 THEN "class_index"
    ELSE "redefine"

\* the place where JNIHook_Attach returns: the first check that fails
AttachStage(declOk, clazz_name, infoOk, cache, class_index) ==
    IF ~declOk THEN "declaring_class"
    ELSE IF Len(clazz_name) = 0 THEN "class_name"
    ELSE IF ~infoOk THEN "method_info"
    ELSE IF clazz_name \notin DOMAIN cache THEN "cache"
    ELSE IF class_index = 0 THEN "class_index"
    ELSE "redefine"

\* JNIHook_Attach reporting a missing class name as a cache miss
AttachReturn_NameAsCache(stage, redefineOk) ==
    CASE stage = "declaring_class" -> JNIHOOK_ERR_JVMTI_OPERATION
      [] stage = "class_name"      -> JNIHOOK_ERR_CLASSFILE_CACHE
      [] stage = "method_info"     -> JNIHOOK_ERR_JVMTI_OPERATION
      [] stage = "cache"           -> JNIHOOK_ERR_CLASSFILE_CACHE
      [] stage = "class_index"     -> JNIHOOK_ERR_PATCH_CLASSFILE
      [] stage = "redefine"        -> JNIHOOK_OK

\* the value JNIHook_Attach returns at each of these places; the result of
\* RedefineClasses is not looked at
AttachReturn(stage, redefineOk) ==
    CASE stage = "declaring_class" -> JNIHOOK_ERR_JVMTI_OPERATION
      [] stage = "class_name"      -> JNIHOOK_ERR_JNI_OPERATION
      [] stage = "method_info"     -> JNIHOOK_ERR_JVMTI_OPERATION
      [] stage = "cache"           -> JNIHOOK_ERR_CLASSFILE_CACHE
      [] stage = "class_index"     -> JNIHOOK_ERR_PATCH_CLASSFILE
      [] stage = "redefine"        -> JNIHOOK_OK

(***************************************************************************)
(* JNIHook_Init.  failAt names the host call that fails, "none" when all   *)
(* succeed.  JavaVM::GetEnv creates a new JVMTI environment on each call.  *)
(***************************************************************************)
InitSteps == <<"GetJavaVM", "GetEnv", "GetPotentialCapabilities", "AddCapabilities",
               "SetEventCallbacks", "SetEventNotificationMode">>
InitFailures == {InitSteps[i] : i \in 1..Len(InitSteps)} \cup {"none"}
StepIndex(step) == CHOOSE i \in 1..Len(InitSteps) : InitSteps[i] = step

\* the host call `step` was made and succeeded
StepDone(failAt, step) == failAt = "none" \/ StepIndex(failAt) > StepIndex(step)

InitReturn(failAt) ==
    CASE failAt = "GetJavaVM"                -> JNIHOOK_ERR_GET_JVM
      [] failAt = "GetEnv"                   -> JNIHOOK_ERR_GET_JVMTI
      [] failAt = "GetPotentialCapabilities" -> JNIHOOK_ERR_ADD_JVMTI_CAPS
      [] failAt = "AddCapabilities"          -> JNIHOOK_ERR_ADD_JVMTI_CAPS
      [] failAt = "SetEventCallbacks"        -> JNIHOOK_ERR_SETUP_CLASS_FILE_LOAD_HOOK
      [] failAt = "SetEventNotificationMode" -> JNIHOOK_ERR_SETUP_CLASS_FILE_LOAD_HOOK
      [] failAt = "none"                     -> JNIHOOK_OK

\* the environment GetEnv created, as JNIHook_Init leaves it: whether its
\* callback table holds JNIHook_ClassFileLoadHook and whether the event is
\* enabled (its capabilities are read by no operation and are left out)
InitEnv(failAt) ==
    [ClassFileLoadHook |-> StepDone(failAt, "SetEventCallbacks"),
     enabled           |-> StepDone(failAt, "SetEventNotificationMode")]

\* JNIHook_Init storing each handle as soon as it has it
InitSession_Eager(failAt, session, jvmti) ==
    [jvm   |-> IF StepDone(failAt, "GetJavaVM") THEN TheJavaVM ELSE session.jvm,
     env   |-> IF failAt = "none" THEN TheJNIEnv ELSE session.env,
     jvmti |-> IF StepDone(failAt, "GetEnv") THEN jvmti ELSE session.jvmti]

\* the caller's jnihook_t after JNIHook_Init: the three handles are stored
\* after the last check, just before the function returns JNIHOOK_OK
InitSession(failAt, session, jvmti) ==
    IF failAt = "none"
    THEN [jvm |-> TheJavaVM, env |-> TheJNIEnv, jvmti |-> jvmti]
    ELSE session

JNIHook_Init(failAt) ==
    /\ ~fault
    /\ Len(jvmtiEnvs) < MaxEnvs
    /\ LET created == StepDone(failAt, "GetEnv")
           jvmti == IF created THEN Len(jvmtiEnvs) + 1 ELSE NULL
       IN /\ jvmtiEnvs' = IF created THEN Append(jvmtiEnvs, InitEnv(failAt)) ELSE jvmtiEnvs
          /\ jnihook' = InitSession(failAt, jnihook, jvmti)
          /\ last' = [NoCall EXCEPT !.op = "Init", !.ret = InitReturn(failAt),
                                    !.stage = failAt, !.jvmti = jvmti]
    /\ UNCHANGED <<g_hooks, g_class_file_cache, loadedBytes, nativeBindings, fault, thr>>

\* JNIHook_Shutdown that also empties the two process-wide maps
JNIHook_Shutdown_ClearMaps ==
    /\ ~fault
    /\ jnihook.jvmti # NULL
    /\ jvmtiEnvs' = [jvmtiEnvs EXCEPT ![jnihook.jvmti].enabled = FALSE,
                                      ![jnihook.jvmti].ClassFileLoadHook = FALSE]
    /\ jnihook' = ZeroedSession
    /\ last' = [NoCall EXCEPT !.op = "Shutdown", !.ret = "void", !.jvmti = jnihook.jvmti]
    /\ g_hooks' = <<>>
    /\ g_class_file_cache' = <<>>
    /\ UNCHANGED <<fault, loadedBytes, nativeBindings, thr>>

(***************************************************************************)
(* JNIHook_Shutdown.  On the environment of an initialised session the two *)
(* JVMTI calls take effect (their results are not looked at).  On a zeroed *)
(* session jnihook->jvmti is a null pointer and the two calls through it   *)
(* are undefined: the process faults, or the calls have no effect and the  *)
(* function runs to its end.                                               *)
(***************************************************************************)
JNIHook_Shutdown ==
    /\ ~fault
    /\ IF jnihook.jvmti = NULL
       THEN /\ \E crash \in BOOLEAN :
                  /\ fault' = crash
                  /\ jnihook' = IF crash THEN jnihook ELSE ZeroedSession
                  /\ last' = [NoCall EXCEPT !.op = "Shutdown",
                                            !.ret = IF crash THEN "fault" ELSE "void"]
            /\ UNCHANGED jvmtiEnvs
       ELSE /\ jvmtiEnvs' = [jvmtiEnvs EXCEPT ![jnihook.jvmti].enabled = FALSE,
                                              ![jnihook.jvmti].ClassFileLoadHook = FALSE]
            /\ jnihook' = ZeroedSession
            /\ last' = [NoCall EXCEPT !.op = "Shutdown", !.ret = "void",
                                      !.jvmti = jnihook.jvmti]
            /\ UNCHANGED fault
    /\ UNCHANGED <<g_hooks, g_class_file_cache, loadedBytes, nativeBindings, thr>>

(***************************************************************************)
(* JNIHook_ClassFileLoadHook, delivered by the VM on its own (a class load *)
(* or a retransformation asked for by someone else).  For the first load   *)
(* of a class class_being_redefined is NULL and get_class_name calls       *)
(* CallObjectMethod on a null object, which is undefined: the process      *)
(* faults, or the call yields no name and the callback returns.            *)
(***************************************************************************)
JNIHook_ClassFileLoadHook(class_being_redefined, class_data, jniOk) ==
    /\ ~fault
    /\ CallbackActive
    /\ IF class_being_redefined = NULL
       THEN /\ \E crash \in BOOLEAN :
                  /\ fault' = (jniOk /\ crash)
                  /\ last' = [NoCall EXCEPT !.op = "ClassFileLoadHook",
                                            !.ret = IF jniOk /\ crash THEN "fault" ELSE "void"]
            /\ UNCHANGED g_class_file_cache
       ELSE LET class_name == get_class_name(class_being_redefined, jniOk)
            IN /\ g_class_file_cache' =
                      ClassFileLoadHookCache(g_hooks, g_class_file_cache, class_name, class_data)
               /\ last' = [NoCall EXCEPT !.op = "ClassFileLoadHook", !.ret = "void",
                                         !.clazz_name = class_name,
                                         !.class_bytes = <<class_data>>]
               /\ UNCHANGED fault
    /\ UNCHANGED <<jnihook, jvmtiEnvs, g_hooks, loadedBytes, nativeBindings, thr>>

(***************************************************************************)
(* JNIHook_Attach.  The host decides whether each query succeeds (declOk,  *)
(* jniOk, infoOk), whether RetransformClasses delivers the class-load      *)
(* event before it returns (deliver; cbJniOk is the callback's own name    *)
(* query) and whether RedefineClasses accepts the bytes (redefineOk).      *)
(* Through a null jnihook->jvmti the first call is undefined: the process  *)
(* faults, or the call reports an error and Attach returns on it.          *)
(***************************************************************************)
JNIHook_Attach(method, native_hook_method, host) ==
    /\ ~fault
    /\ HookCount(g_hooks, DOMAIN g_hooks) < MaxHooks
    /\ IF jnihook.jvmti = NULL
       THEN /\ \E crash \in BOOLEAN :
                  /\ fault' = crash
                  /\ last' = [NoCall EXCEPT !.op = "Attach", !.method = method,
                                  !.native_hook_method = native_hook_method,
                                  !.ret = IF crash THEN "fault" ELSE JNIHOOK_ERR_JVMTI_OPERATION]
            /\ UNCHANGED <<jnihook, g_hooks, g_class_file_cache, loadedBytes>>
       ELSE LET declOk == host.declOk
                jniOk == host.jniOk
                infoOk == host.infoOk
                deliver == host.deliver
                cbJniOk == host.cbJniOk
                redefineOk == host.redefineOk
                clazz == DeclaringClass[method]
                clazz_name == IF declOk THEN get_class_name(clazz, jniOk) ELSE <<>>
                hook_info == [method_info |-> [name |-> MethodName[method],
                                               signature |-> MethodSignature[method]],
                              native_hook_method |-> native_hook_method]
                resolved == Resolved(declOk, clazz_name, infoOk)
                hooks1 == IF resolved THEN PushHook(g_hooks, clazz_name, hook_info) ELSE g_hooks
                \* RetransformClasses: the VM hands the class's current bytes to the callback
                cache1 == IF resolved /\ deliver /\ CallbackActive
                          THEN AttachRetransform(g_hooks, clazz_name, hook_info,
                                                 g_class_file_cache,
                                                 get_class_name(clazz, cbJniOk),
                                                 loadedBytes[clazz])
                          ELSE g_class_file_cache
                cached == resolved /\ clazz_name \in DOMAIN cache1
                class_index == IF cached THEN FindClassIndex(cache1[clazz_name], clazz_name) ELSE 0
                stage == AttachStage(declOk, clazz_name, infoOk, cache1, class_index)
                cf == IF cached THEN PatchClassFile(cache1[clazz_name], hook_info.method_info)
                      ELSE Malformed.doc
                cf_bytes == ClassFile_bytes(cf)
                ret == AttachReturn(stage, redefineOk)
            IN /\ g_hooks' = hooks1
               \* the event RedefineClasses raises finds the class cached and returns
               /\ g_class_file_cache' = cache1
               /\ loadedBytes' = IF stage = "redefine" /\ redefineOk
                                 THEN [loadedBytes EXCEPT ![clazz] = cf_bytes]
                                 ELSE loadedBytes
               /\ last' = [op |-> "Attach", ret |-> ret, stage |-> stage, method |-> method,
                           native_hook_method |-> native_hook_method,
                           clazz_name |-> clazz_name, jvmti |-> jnihook.jvmti,
                           retransform |-> resolved,
                           redefine |-> IF stage # "redefine" THEN "none"
                                        ELSE IF redefineOk THEN "accepted" ELSE "rejected",
                           class_bytes |-> IF stage = "redefine" THEN <<cf_bytes>> ELSE <<>>]
               /\ jnihook' = SessionAfterAttach(jnihook, ret)
               /\ UNCHANGED fault
    /\ UNCHANGED <<jvmtiEnvs, nativeBindings, thr>>

\* what the host may answer during one JNIHook_Attach; an answer to a call
\* that is not reached is fixed to TRUE, as it cannot be observed
HostAnswers ==
    {h \in [declOk : BOOLEAN, jniOk : BOOLEAN, infoOk : BOOLEAN,
            deliver : BOOLEAN, cbJniOk : BOOLEAN, redefineOk : BOOLEAN] :
        /\ ~h.declOk => h.jniOk
        /\ ~(h.declOk /\ h.jniOk) => h.infoOk
        /\ ~(h.declOk /\ h.jniOk /\ h.infoOk) => (h.deliver /\ h.redefineOk)
        /\ ~h.deliver => h.cbJniOk}

\* the class-load notifications the VM may deliver on its own; the bytes of
\* a notification whose class cannot be named are never read and are fixed
Notifications ==
    {n \in [class_being_redefined : Classes \cup {NULL}, class_data : ClassData,
            jniOk : BOOLEAN] :
        (n.class_being_redefined = NULL \/ ~n.jniOk) => n.class_data = Malformed}

Next ==
    \/ \E failAt \in InitFailures : JNIHook_Init(failAt)
    \/ JNIHook_Shutdown
    \/ \E n \in Notifications :
          JNIHook_ClassFileLoadHook(n.class_being_redefined, n.class_data, n.jniOk)
    \/ \E m \in Methods, t \in Trampolines, host \in HostAnswers :
          JNIHook_Attach(m, t, host)

Spec == Init /\ [][Next]_vars

(***************************************************************************)
(* Vocabulary of the properties.                                           *)
(***************************************************************************)
\* the text of constant-pool entry i of document cf
Utf8At(cf, i) == cf.constant_pool[i].bytes

\* the method records of cf whose name and descriptor are those of jmethodID m
RecordsOf(cf, m) ==
    {i \in 1..Len(cf.methods) :
        /\ Utf8At(cf, cf.methods[i].name_index) = MethodName[m]
        /\ Utf8At(cf, cf.methods[i].descriptor_index) = MethodSignature[m]}

\* document cf declares m as a native method without a Code attribute
IsPatched(cf, m) ==
    /\ RecordsOf(cf, m) # {}
    /\ \A i \in RecordsOf(cf, m) : cf.methods[i].acc_native /\ ~cf.methods[i].code

\* the last call was a JNIHook_Attach on an initialised session that ran to
\* a return statement
AttachReturned == last.op = "Attach" /\ last.jvmti # NULL

\* the document the last JNIHook_Attach submitted to RedefineClasses
SubmittedDoc == last.class_bytes[1].doc

(***************************************************************************)
(* C1: cumulative patch law.  When JNIHook_Attach(M1) returns JNIHOOK_OK   *)
(* and the next call, JNIHook_Attach(M2) on another method of the same     *)
(* class, returns JNIHOOK_OK too, the bytes the second call hands to       *)
(* RedefineClasses declare both M1 and M2 native, without Code attribute.  *)
(***************************************************************************)
AttachSucceeded(call) ==
    call.op = "Attach" /\ call.jvmti # NULL /\ call.ret = JNIHOOK_OK

C1_CumulativePatch ==
    [][(/\ AttachSucceeded(last)
        /\ AttachSucceeded(last')
        /\ last'.method # last.method
        /\ DeclaringClass[last'.method] = DeclaringClass[last.method])
       => /\ last'.class_bytes # <<>>
          /\ IsPatched(last'.class_bytes[1].doc, last.method)
          /\ IsPatched(last'.class_bytes[1].doc, last'.method)]_vars

(***************************************************************************)
(* C2: when JNIHook_Attach(method, T) returns JNIHOOK_OK, the document it  *)
(* submitted to RedefineClasses declares the method native and without     *)
(* Code attribute, and T has been bound in the VM as the implementation of *)
(* the method's name and descriptor.                                       *)
(***************************************************************************)
C2_PatchedAndBound ==
    (AttachReturned /\ last.ret = JNIHOOK_OK) =>
        /\ last.class_bytes # <<>>
        /\ IsPatched(SubmittedDoc, last.method)
        /\ <<MethodName[last.method], MethodSignature[last.method],
              last.native_hook_method>> \in nativeBindings

(***************************************************************************)
(* C3: after a JNIHook_Attach whose RedefineClasses request was accepted,  *)
(* the cache entry of the declaring class is the document submitted, and   *)
(* that document is the patched one (the target is native in it), so that  *)
(* the next JNIHook_Attach on the class starts from the patch.             *)
(***************************************************************************)
C3_CacheHoldsPatchedDoc ==
    (AttachReturned /\ last.redefine = "accepted") =>
        /\ last.clazz_name \in DOMAIN g_class_file_cache
        /\ g_class_file_cache[last.clazz_name] = SubmittedDoc
        /\ IsPatched(g_class_file_cache[last.clazz_name], last.method)

(***************************************************************************)
(* C4: cache-once law.  No step (a class-load notification delivered on    *)
(* its own, or the one RetransformClasses delivers inside JNIHook_Attach,  *)
(* or JNIHook_Init, or JNIHook_Shutdown) removes a cached document or      *)
(* replaces it by another.                                                 *)
(***************************************************************************)
C4_CacheOnce ==
    [][\A k \in DOMAIN g_class_file_cache :
          /\ k \in DOMAIN g_class_file_cache'
          /\ g_class_file_cache'[k] = g_class_file_cache[k]]_vars

\* a notification for a cached class name has arrived with well-formed
\* bytes of a document other than the cached one
C4_Witness ==
    /\ last.op = "ClassFileLoadHook"
    /\ last.clazz_name \in DOMAIN g_class_file_cache
    /\ last.class_bytes[1].wellformed
    /\ last.class_bytes[1].doc # g_class_file_cache[last.clazz_name]

(***************************************************************************)
(* C5: error determinism.  Any two JNIHook_Attach calls made one after the *)
(* other, in each of which the declaring class could not be resolved (the  *)
(* declaring-class query failed or no class name was obtained), return one *)
(* and the same error kind.                                                *)
(***************************************************************************)
UnresolvedClass(call) ==
    /\ call.op = "Attach"
    /\ call.jvmti # NULL
    /\ call.stage \in {"declaring_class", "class_name"}

C6_AbsentMethodFails ==
    (/\ AttachReturned
     /\ last.stage \in {"class_index", "redefine"}
     /\ RecordsOf(g_class_file_cache[last.clazz_name], last.method) = {})
        => last.ret = JNIHOOK_ERR_PATCH_CLASSFILE

(***************************************************************************)
(* C7: if RedefineClasses fails during JNIHook_Attach, the call does not   *)
(* return JNIHOOK_OK, and the record it appended is still in g_hooks.      *)
(***************************************************************************)
HookRecordOf(call) ==
    [method_info |-> [name |-> MethodName[call.method],
                      signature |-> MethodSignature[call.method]],
     native_hook_method |-> call.native_hook_method]

Registered(call) ==
    /\ call.clazz_name \in DOMAIN g_hooks
    /\ \E i \in 1..Len(g_hooks[call.clazz_name]) :
          g_hooks[call.clazz_name][i] = HookRecordOf(call)

C7_RedefineFailureReported ==
    (AttachReturned /\ last.redefine = "rejected") =>
        /\ last.ret # JNIHOOK_OK
        /\ Registered(last)

(***************************************************************************)
(* C8: when a step of JNIHook_Init fails, Init returns an error and the    *)
(* callback table of the environment it obtained (if it obtained one) does *)
(* not hold the class-load callback.                                       *)
(***************************************************************************)
C8_FailedInitLeavesNoCallback ==
    (last.op = "Init" /\ last.stage # "none") =>
        /\ last.ret # JNIHOOK_OK
        /\ last.jvmti # NULL => ~jvmtiEnvs[last.jvmti].ClassFileLoadHook

(***************************************************************************)
(* C9: JNIHook_Shutdown called on a session that JNIHook_Shutdown has      *)
(* already zeroed completes without fault and changes nothing.             *)
(***************************************************************************)
C9_ShutdownIdempotent ==
    [][(last.op = "Shutdown" /\ jnihook = ZeroedSession /\ last'.op = "Shutdown") =>
          /\ ~fault'
          /\ jnihook' = jnihook
          /\ UNCHANGED <<jvmtiEnvs, g_hooks, g_class_file_cache, loadedBytes>>]_vars

(***************************************************************************)
(* C10: JNIHook_Shutdown on an initialised session disables the class-load *)
(* event of the session's environment, clears its callback table, zeroes   *)
(* the three handles, and leaves g_hooks and g_class_file_cache as they    *)
(* were.                                                                   *)
(***************************************************************************)
C10_ShutdownEffect ==
    [][(jnihook.jvmti # NULL /\ last'.op = "Shutdown") =>
          /\ ~jvmtiEnvs'[jnihook.jvmti].enabled
          /\ ~jvmtiEnvs'[jnihook.jvmti].ClassFileLoadHook
          /\ jnihook' = ZeroedSession
          /\ g_hooks' = g_hooks
          /\ g_class_file_cache' = g_class_file_cache]_vars

\* an initialised session with a record registered and a document cached
\* has been shut down
C10_Witness ==
    /\ last.op = "Shutdown"
    /\ last.jvmti # NULL
    /\ jnihook = ZeroedSession
    /\ ~jvmtiEnvs[last.jvmti].enabled
    /\ DOMAIN g_hooks # {}
    /\ DOMAIN g_class_file_cache # {}

(***************************************************************************)
(* C11: JNIHook_Attach never modifies the session's handle bundle: across  *)
(* every JNIHook_Attach step, whatever it returns, jvm, env and jvmti are  *)
(* unchanged, so that the session is still initialised for the next call.  *)
(***************************************************************************)
C11_AttachKeepsSession ==
    [][last'.op = "Attach" =>
          /\ jnihook' = jnihook
          /\ last'.jvmti # NULL => jnihook'.jvmti = last'.jvmti]_vars

\* on the one session there is, an Attach on class C has ended in a cache
\* miss (its record is registered, nothing is cached for C) and a later
\* Attach on a/B has returned JNIHOOK_OK
C11_Witness ==
    /\ AttachSucceeded(last)
    /\ last.clazz_name = <<"a", "/", "B">>
    /\ Len(jvmtiEnvs) = 1
    /\ jnihook.jvmti = 1
    /\ <<"C">> \in DOMAIN g_hooks
    /\ <<"C">> \notin DOMAIN g_class_file_cache

(***************************************************************************)
(* The same operations statement by statement, for two threads: "attach"   *)
(* calls JNIHook_Attach, "vm" is a VM thread on which the class-load event *)
(* is delivered for a retransformation somebody else asked for.  A thread  *)
(* whose pc names a statement that touches a map has begun that statement  *)
(* and not finished it; the step that leaves the pc finishes it.  The code *)
(* takes no lock anywhere.  Two unsynchronised accesses to one map of      *)
(* which one is a write are a data race: the access that finishes in a     *)
(* race either takes effect or faults.                                     *)
(***************************************************************************)
NoAccess == [map |-> "none", mode |-> "none"]

\* the map a thread at pc is reading or writing
AccessAt(pc) ==
    CASE pc = "hooks_push"     -> [map |-> "g_hooks", mode |-> "write"]
      [] pc = "cb_hooks_find"  -> [map |-> "g_hooks", mode |-> "read"]
      [] pc = "cb_cache_find"  -> [map |-> "g_class_file_cache", mode |-> "read"]
      [] pc = "cb_cache_store" -> [map |-> "g_class_file_cache", mode |-> "write"]
      [] pc = "cache_find"     -> [map |-> "g_class_file_cache", mode |-> "read"]
      [] pc = "cache_copy"     -> [map |-> "g_class_file_cache", mode |-> "read"]
      [] OTHER                 -> NoAccess

Access(t) == AccessAt(thr[t].pc)

\* thread t is in a data race on the map it is accessing
Racing(t) ==
    \E u \in Threads \ {t} :
        /\ Access(u).map = Access(t).map
        /\ Access(t).map # "none"
        /\ "write" \in {Access(t).mode, Access(u).mode}

\* the outcome of finishing an access: a fault is possible only in a race
FinishAccess(t) == fault' \in (IF Racing(t) THEN BOOLEAN ELSE {FALSE})

ThreadHook(t) ==
    [method_info |-> [name |-> MethodName[thr[t].method],
                      signature |-> MethodSignature[thr[t].method]],
     native_hook_method |-> CHOOSE a \in Trampolines : TRUE]

\* the class name the code computes for the class thread t works on
ThreadClassName(t) == get_class_name(thr[t].clazz, TRUE)

\* JNIHook_Attach up to the start of the push_back
T_AttachCall(m, declOk, jniOk, infoOk) ==
    /\ ~fault
    /\ thr["attach"].pc = "idle"
    /\ jnihook.jvmti # NULL
    /\ HookCount(g_hooks, DOMAIN g_hooks) < MaxHooks
    /\ LET clazz_name == IF declOk THEN get_class_name(DeclaringClass[m], jniOk) ELSE <<>>
           stage == AttachStage(declOk, clazz_name, infoOk, g_class_file_cache, 0)
       IN IF Resolved(declOk, clazz_name, infoOk)
          THEN /\ thr' = [thr EXCEPT !["attach"] =
                            [IdleThread EXCEPT !.pc = "hooks_push", !.method = m,
                                               !.clazz = DeclaringClass[m]]]
               /\ UNCHANGED last
          ELSE /\ last' = [NoCall EXCEPT !.op = "Attach", !.method = m, !.stage = stage,
                                        !.ret = AttachReturn(stage, TRUE),
                                        !.clazz_name = clazz_name,
                                        !.jvmti = jnihook.jvmti]
               /\ UNCHANGED thr
    /\ UNCHANGED <<jnihook, jvmtiEnvs, g_hooks, g_class_file_cache, loadedBytes,
                   nativeBindings, fault>>

\* the push_back finishes; RetransformClasses either runs the callback on
\* this thread or does not, then the cache lookup begins
T_HooksPush(deliver) ==
    /\ ~fault
    /\ thr["attach"].pc = "hooks_push"
    /\ FinishAccess("attach")
    /\ g_hooks' = PushHook(g_hooks, ThreadClassName("attach"), ThreadHook("attach"))
    /\ thr' = [thr EXCEPT !["attach"].pc =
                  IF deliver /\ CallbackActive THEN "cb_hooks_find" ELSE "cache_find",
                          !["attach"].class_data = loadedBytes[thr["attach"].clazz],
                          !["attach"].after = "cache_find"]
    /\ UNCHANGED <<jnihook, jvmtiEnvs, g_class_file_cache, loadedBytes, nativeBindings, last>>

\* the VM delivers a class-load event on its own thread, with the bytes the
\* class currently has
T_Notify(n) ==
    /\ ~fault
    /\ thr["vm"].pc = "idle"
    /\ CallbackActive
    /\ n.class_being_redefined # NULL
    /\ n.jniOk
    /\ n.class_data = loadedBytes[n.class_being_redefined]
    /\ thr' = [thr EXCEPT !["vm"] =
                  [IdleThread EXCEPT !.pc = "cb_hooks_find",
                                     !.clazz = n.class_being_redefined,
                                     !.class_data = n.class_data]]
    /\ UNCHANGED <<jnihook, jvmtiEnvs, g_hooks, g_class_file_cache, loadedBytes,
                   nativeBindings, fault, last>>

\* the callback's g_hooks.find finishes
T_CbHooksFind(t) ==
    /\ ~fault
    /\ thr[t].pc = "cb_hooks_find"
    /\ FinishAccess(t)
    /\ thr' = [thr EXCEPT ![t].pc = IF ThreadClassName(t) \in DOMAIN g_hooks
                                    THEN "cb_cache_find" ELSE thr[t].after]
    /\ UNCHANGED <<jnihook, jvmtiEnvs, g_hooks, g_class_file_cache, loadedBytes,
                   nativeBindings, last>>

\* the callback's g_class_file_cache.find finishes; the bytes are parsed
T_CbCacheFind(t) ==
    /\ ~fault
    /\ thr[t].pc = "cb_cache_find"
    /\ FinishAccess(t)
    /\ thr' = [thr EXCEPT ![t].pc =
                  IF \/ ThreadClassName(t) \in DOMAIN g_class_file_cache
                     \/ ClassFile_load(thr[t].class_data) = {}
                  THEN thr[t].after ELSE "cb_cache_store"]
    /\ UNCHANGED <<jnihook, jvmtiEnvs, g_hooks, g_class_file_cache, loadedBytes,
                   nativeBindings, last>>

\* the callback's assignment to g_class_file_cache[class_name] finishes
T_CbCacheStore(t) ==
    /\ ~fault
    /\ thr[t].pc = "cb_cache_store"
    /\ FinishAccess(t)
    /\ g_class_file_cache' =
          (ThreadClassName(t) :> (CHOOSE d \in ClassFile_load(thr[t].class_data) : TRUE))
              @@ g_class_file_cache
    /\ thr' = [thr EXCEPT ![t].pc = thr[t].after]
    /\ UNCHANGED <<jnihook, jvmtiEnvs, g_hooks, loadedBytes, nativeBindings, last>>

\* JNIHook_Attach's g_class_file_cache.find finishes
T_CacheFind ==
    /\ ~fault
    /\ thr["attach"].pc = "cache_find"
    /\ FinishAccess("attach")
    /\ IF ThreadClassName("attach") \in DOMAIN g_class_file_cache
       THEN /\ thr' = [thr EXCEPT !["attach"].pc = "cache_copy"]
            /\ UNCHANGED last
       ELSE /\ thr' = [thr EXCEPT !["attach"] = IdleThread]
            /\ last' = [NoCall EXCEPT !.op = "Attach", !.method = thr["attach"].method,
                                     !.stage = "cache", !.ret = AttachReturn("cache", TRUE),
                                     !.clazz_name = ThreadClassName("attach"),
                                     !.jvmti = jnihook.jvmti, !.retransform = TRUE]
    /\ UNCHANGED <<jnihook, jvmtiEnvs, g_hooks, g_class_file_cache, loadedBytes, nativeBindings>>

\* the copy of the cached document finishes; the rest of JNIHook_Attach
\* works on the copy, and the event RedefineClasses raises runs the callback
\* on this thread once more
T_CacheCopy(redefineOk) ==
    /\ ~fault
    /\ thr["attach"].pc = "cache_copy"
    /\ FinishAccess("attach")
    /\ LET clazz_name == ThreadClassName("attach")
           cached == g_class_file_cache[clazz_name]
           class_index == FindClassIndex(cached, clazz_name)
           stage == AttachStage(TRUE, clazz_name, TRUE, g_class_file_cache, class_index)
           cf_bytes == ClassFile_bytes(PatchClassFile(cached, ThreadHook("attach").method_info))
       IN /\ loadedBytes' = IF stage = "redefine" /\ redefineOk
                            THEN [loadedBytes EXCEPT ![thr["attach"].clazz] = cf_bytes]
                            ELSE loadedBytes
          /\ thr' = [thr EXCEPT !["attach"] =
                       IF stage = "redefine" /\ redefineOk /\ CallbackActive
                       THEN [thr["attach"] EXCEPT !.pc = "cb_hooks_find",
                                                  !.class_data = cf_bytes,
                                                  !.after = "idle"]
                       ELSE IdleThread]
          /\ last' = [NoCall EXCEPT !.op = "Attach", !.method = thr["attach"].method,
                                   !.stage = stage, !.ret = AttachReturn(stage, redefineOk),
                                   !.clazz_name = clazz_name, !.jvmti = jnihook.jvmti,
                                   !.retransform = TRUE,
                                   !.redefine = IF stage # "redefine" THEN "none"
                                                ELSE IF redefineOk THEN "accepted"
                                                ELSE "rejected",
                                   !.class_bytes = IF stage = "redefine" THEN <<cf_bytes>>
                                                   ELSE <<>>]
    /\ UNCHANGED <<jnihook, jvmtiEnvs, g_hooks, g_class_file_cache, nativeBindings>>

\* JNIHook_Init, called while no thread is inside the library
T_Init(failAt) ==
    /\ \A t \in Threads : thr[t].pc = "idle"
    /\ JNIHook_Init(failAt)

NextConc ==
    \/ \E failAt \in InitFailures : T_Init(failAt)
    \/ \E m \in Methods, declOk \in BOOLEAN, jniOk \in BOOLEAN, infoOk \in BOOLEAN :
          T_AttachCall(m, declOk, jniOk, infoOk)
    \/ \E deliver \in BOOLEAN : T_HooksPush(deliver)
    \/ \E n \in Notifications : T_Notify(n)
    \/ \E t \in Threads : T_CbHooksFind(t)
    \/ \E t \in Threads : T_CbCacheFind(t)
    \/ \E t \in Threads : T_CbCacheStore(t)
    \/ T_CacheFind
    \/ \E redefineOk \in BOOLEAN : T_CacheCopy(redefineOk)

SpecConc == Init /\ [][NextConc]_vars

(***************************************************************************)
(* C12: accesses to the hook registry and to the cache are mutually        *)
(* exclusive: at no time are two threads both in the middle of reading or  *)
(* writing the same map.                                                   *)
(***************************************************************************)
C12_MutualExclusion ==
    \A t \in Threads : \A u \in Threads \ {t} :
        Access(t).map # "none" => Access(u).map # Access(t).map

(***************************************************************************)
(* C13: registration is idempotent.  A JNIHook_Attach that gets as far as  *)
(* registering leaves the records of the class as they were when the same  *)
(* method and trampoline are registered already, and otherwise appends     *)
(* exactly one record after the existing ones, replacing none.             *)
(***************************************************************************)
RecordsAt(hooks, name) == IF name \in DOMAIN hooks THEN hooks[name] ELSE <<>>

C13_IdempotentRegistration ==
    [][(/\ last'.op = "Attach"
        /\ last'.jvmti # NULL
        /\ last'.stage \in {"cache", "class_index", "redefine"}) =>
          LET before == RecordsAt(g_hooks, last'.clazz_name)
              after == RecordsAt(g_hooks', last'.clazz_name)
              rec == HookRecordOf(last')
          IN IF \E i \in 1..Len(before) : before[i] = rec
             THEN after = before
             ELSE after = Append(before, rec)]_vars

(***************************************************************************)
(* C14: canonicalisation law.  The name under which JNIHook_Attach         *)
(* registers a hook and looks up the cache, and the name the class-load    *)
(* callback computes for the same class, are both the slash form of the    *)
(* class's reflective name: every '.' replaced by '/', every other         *)
(* character kept.  Both maps are keyed by slash forms only, so one class  *)
(* has one key.                                                            *)
(***************************************************************************)
IsSlashFormOf(key, name) ==
    /\ Len(key) = Len(name)
    /\ \A i \in 1..Len(name) : key[i] = (IF name[i] = "." THEN "/" ELSE name[i])

C14_CanonicalKey ==
    [][/\ (last'.op = "Attach" /\ last'.clazz_name # <<>>) =>
             /\ IsSlashFormOf(last'.clazz_name,
                              ReflectiveName[DeclaringClass[last'.method]])
             /\ DOMAIN g_hooks' \ DOMAIN g_hooks \subseteq {last'.clazz_name}
             /\ DOMAIN g_class_file_cache' \ DOMAIN g_class_file_cache
                    \subseteq {last'.clazz_name}
       /\ (last'.op = "ClassFileLoadHook" /\ last'.clazz_name # <<>>) =>
             \A n \in Notifications :
                JNIHook_ClassFileLoadHook(n.class_being_redefined, n.class_data, n.jniOk) =>
                   /\ IsSlashFormOf(last'.clazz_name,
                                    ReflectiveName[n.class_being_redefined])
                   /\ DOMAIN g_class_file_cache' \ DOMAIN g_class_file_cache
                          \subseteq {last'.clazz_name}
       /\ \A k \in DOMAIN g_hooks' \cup DOMAIN g_class_file_cache' :
             \E c \in Classes : IsSlashFormOf(k, ReflectiveName[c])]_vars

C14_Witness ==
    /\ last.op = "ClassFileLoadHook"
    /\ last.clazz_name = <<"a", "/", "B">>
    /\ last.clazz_name \in DOMAIN g_hooks
    /\ last.clazz_name \in DOMAIN g_class_file_cache
    /\ <<"C">> \in DOMAIN g_hooks

(***************************************************************************)
(* C15: the class-load callback stores a document in the cache only for a  *)
(* class name that has at least one record in g_hooks and no document in   *)
(* the cache yet; so after every step each class name with a cache entry   *)
(* has at least one record in g_hooks.                                     *)
(***************************************************************************)
HasHook(hooks, name) == name \in DOMAIN hooks /\ Len(hooks[name]) >= 1

C15_CacheOnlyWhenHooked ==
    [][/\ last'.op = "ClassFileLoadHook" =>
             /\ \A k \in DOMAIN g_class_file_cache' \ DOMAIN g_class_file_cache :
                    HasHook(g_hooks, k)
             /\ \A k \in DOMAIN g_class_file_cache :
                    /\ k \in DOMAIN g_class_file_cache'
                    /\ g_class_file_cache'[k] = g_class_file_cache[k]
       /\ \A k \in DOMAIN g_class_file_cache' : HasHook(g_hooks', k)]_vars

C15_Witness ==
    /\ last.op = "ClassFileLoadHook"
    /\ last.class_bytes = <<ClassFile_bytes(DocB1)>>
    /\ last.clazz_name \in DOMAIN g_class_file_cache
    /\ g_class_file_cache[last.clazz_name] = DocB1
    /\ HasHook(g_hooks, last.clazz_name)

(***************************************************************************)
(* C16: within one JNIHook_Attach the record is appended, then the         *)
(* retransformation is requested, then, after the callback it triggers     *)
(* has returned, the cache is looked up.  So when the VM delivers the      *)
(* event during RetransformClasses, the callback can name the class and    *)
(* the class's bytes parse, a JNIHook_Attach on a class that was not       *)
(* cached before finds it cached and does not return                       *)
(* JNIHOOK_ERR_CLASSFILE_CACHE.                                            *)
(***************************************************************************)
DeliveringHosts ==
    {h \in HostAnswers : h.declOk /\ h.jniOk /\ h.infoOk /\ h.deliver /\ h.cbJniOk}

C16_RetransformBeforeLookup ==
    [][(/\ last'.op = "Attach"
        /\ last'.retransform
        /\ last'.clazz_name \notin DOMAIN g_class_file_cache
        /\ CallbackActive
        /\ ClassFile_load(loadedBytes[DeclaringClass[last'.method]]) # {}) =>
          \A host \in DeliveringHosts :
              JNIHook_Attach(last'.method, last'.native_hook_method, host) =>
                  /\ last'.ret # JNIHOOK_ERR_CLASSFILE_CACHE
                  /\ last'.clazz_name \in DOMAIN g_class_file_cache'
                  /\ HasHook(g_hooks', last'.clazz_name)]_vars

C16_Witness ==
    /\ AttachSucceeded(last)
    /\ last.clazz_name = <<"C">>
    /\ Len(g_hooks[<<"C">>]) = 1
    /\ g_class_file_cache[<<"C">>] = DocC
    /\ DOMAIN g_hooks = {<<"C">>}

(***************************************************************************)
(* C17: when RetransformClasses has returned and g_class_file_cache has    *)
(* no entry for the declaring class, JNIHook_Attach returns                *)
(* JNIHOOK_ERR_CLASSFILE_CACHE at once: nothing is stored in the cache or  *)
(* handed to the VM during the call, and RedefineClasses is not called.    *)
(***************************************************************************)
C17_CacheMissReported ==
    [][(/\ last'.op = "Attach"
        /\ last'.jvmti # NULL
        /\ last'.retransform
        /\ last'.clazz_name \notin DOMAIN g_class_file_cache') =>
          /\ last'.ret = JNIHOOK_ERR_CLASSFILE_CACHE
          /\ last'.redefine = "none"
          /\ last'.class_bytes = <<>>
          /\ g_class_file_cache' = g_class_file_cache
          /\ loadedBytes' = loadedBytes]_vars

C17_Witness ==
    /\ AttachReturned
    /\ last.stage = "cache"
    /\ last.retransform
    /\ Registered(last)
    /\ last.clazz_name \notin DOMAIN g_class_file_cache
    /\ g_class_file_cache # <<>>

(***************************************************************************)
(* C18: when no CONSTANT_Class entry of the cached document names, through *)
(* its name_index, the declaring class, JNIHook_Attach returns             *)
(* JNIHOOK_ERR_PATCH_CLASSFILE and RedefineClasses is not called;          *)
(* RedefineClasses is called only when such an entry exists.               *)
(***************************************************************************)
HasClassEntry(cf, name) ==
    \E i \in 1..Len(cf.constant_pool) :
        /\ cf.constant_pool[i].tag = CONSTANT_Class
        /\ Utf8At(cf, cf.constant_pool[i].name_index) = name

C18_NoClassEntryNoRedefine ==
    AttachReturned =>
        /\ (/\ last.retransform
            /\ last.clazz_name \in DOMAIN g_class_file_cache
            /\ ~HasClassEntry(g_class_file_cache[last.clazz_name], last.clazz_name)) =>
               /\ last.ret = JNIHOOK_ERR_PATCH_CLASSFILE
               /\ last.redefine = "none"
        /\ last.redefine # "none" =>
               /\ last.clazz_name \in DOMAIN g_class_file_cache
               /\ HasClassEntry(g_class_file_cache[last.clazz_name], last.clazz_name)

C18_Witness ==
    /\ AttachReturned
    /\ last.stage = "class_index"
    /\ last.clazz_name = <<"a", "/", "B">>
    /\ g_class_file_cache[last.clazz_name] = DocC
    /\ last.redefine = "none"

(***************************************************************************)
(* C19: a JNIHook_Attach that cannot obtain the declaring class, the class *)
(* name or the method's name and signature leaves g_hooks and              *)
(* g_class_file_cache as they were and calls neither RetransformClasses    *)
(* nor RedefineClasses; a record is appended only when all three have been *)
(* obtained.                                                               *)
(***************************************************************************)
C19_FailedResolutionNoEffect ==
    [][(last'.op = "Attach" /\ last'.jvmti # NULL) =>
          /\ last'.stage \in {"declaring_class", "class_name", "method_info"} =>
                /\ g_hooks' = g_hooks
                /\ g_class_file_cache' = g_class_file_cache
                /\ loadedBytes' = loadedBytes
                /\ ~last'.retransform
                /\ last'.redefine = "none"
          /\ g_hooks' # g_hooks =>
                last'.stage \in {"cache", "class_index", "redefine"}]_vars

C19_Witness ==
    /\ AttachReturned
    /\ last.stage = "method_info"
    /\ last.ret = JNIHOOK_ERR_JVMTI_OPERATION
    /\ last.clazz_name = <<"C">>
    /\ DOMAIN g_hooks = {<<"a", "/", "B">>}

(***************************************************************************)
(* C20: JNIHook_Init writes the caller's jnihook_t only on full success:   *)
(* when it returns an error, jvm, env and jvmti are what they were before  *)
(* the call; when it returns JNIHOOK_OK, all three are set.                *)
(***************************************************************************)
C20_InitWritesOnSuccess ==
    [][last'.op = "Init" =>
          IF last'.ret = JNIHOOK_OK
          THEN /\ jnihook'.jvm # NULL
               /\ jnihook'.env # NULL
               /\ jnihook'.jvmti # NULL
               /\ jnihook'.jvmti = last'.jvmti
          ELSE jnihook' = jnihook]_vars

C20_Witness ==
    /\ last.op = "Init"
    /\ last.ret # JNIHOOK_OK
    /\ last.stage = "SetEventNotificationMode"
    /\ jnihook.jvmti = 1
    /\ Len(jvmtiEnvs) = 2

====
